---- MODULE Spec2Model ----
(***************************************************************************)
(* Model of src/index.js: the Express handlers of the AI chat backend      *)
(* (upload, chat turn, conversation listing, thread retrieval) over the    *)
(* three MongoDB collections Conversation, Message and Attachment.         *)
(*                                                                         *)
(* Every `await` of a handler is a point where other requests interleave,  *)
(* so each handler is cut into one action per awaited operation.  A text   *)
(* is a sequence of one-character strings.  Timestamps are readings of a   *)
(* millisecond wall clock that may or may not have advanced between two    *)
(* readings.                                                               *)
(***************************************************************************)
EXTENDS Integers, Sequences, FiniteSets, TLC

\* ---------------------------------------------------------------- bounds
\* Largest reading of the clock.
MaxClock == 2

\* ------------------------------------------------------ program constants
TitleLen == 30
DefaultPage == 1
DefaultLimit == 20
MaxLimit == 100
MaxFileSize == 50 * 1024 * 1024
PORT == 3001

\* ---------------------------------------------------------------- inputs
\* The request slots: each carries at most one request, from its arrival to
\* its answer.  Two is the pair of slots the smaller specifications use.
Reqs == {"r1", "r2", "r3", "r4"}
Two == {"r1", "r2"}
Third == {"r3"}
Readers == {"r3", "r4"}

TPlan == <<"P", "l", "a", "n">>
TLong == [i \in 1..(TitleLen + 1) |-> IF i = TitleLen + 1 THEN "z" ELSE "x"]
\* message of a chat request; <<>> is a missing or empty one
Texts == {<<>>, TPlan, TLong}
\* sessionId of a request; "" is a missing or empty one
SessionIds == {"", "s1", "s2"}
\* attachments of a chat request: 0 is a falsy entry (null, ''), n >= 1 the
\* ObjectId of the n-th Attachment (which may not exist), -1 a string that
\* is no ObjectId.
AttLists == {<<>>, <<0, 1>>, <<2, 1>>, <<-1>>}
\* what the provider answers: a transport failure or non-2xx status, a body
\* with an empty candidates list, or a body whose first part has this text
\* (Placeholder stands for the fixed fallback string of line 129.)
Placeholder == <<"(no reply)">>
GeminiOutcomes ==
  { [kind |-> "error", text |-> <<>>],
    [kind |-> "nocandidates", text |-> <<>>],
    [kind |-> "text", text |-> <<>>],
    [kind |-> "text", text |-> <<"o", "k">>] }

allowed ==
  { "image/jpeg", "image/png", "image/gif", "application/pdf",
    "application/msword",
    "application/vnd.openxmlformats-officedocument.wordprocessingml.document",
    "text/plain" }
MimeTypes == {"image/png", "application/zip"}
FileSizes == {1024, MaxFileSize + 1}
\* the message of fileFilter's Error (line 71), which line 102 compares with
UnsupportedMsg == "unsupported file format"

\* a query parameter: absent, not a number, or a decimal number
RawNone == <<"none", 0>>
RawNaN == <<"nan", 0>>
Num(n) == <<"num", n>>
PageRaws == {RawNone, Num(2)}
LimitRaws == {RawNone, Num(1)}
\* every kind of value of ?page= and ?limit=
PageRawsAll == {RawNone, RawNaN, Num(0), Num(-1), Num(1), Num(2)}
LimitRawsAll ==
  {RawNone, RawNaN, Num(0), Num(-1), Num(1), Num(MaxLimit), Num(MaxLimit + 1)}
Keywords == {<<>>, <<"L", "A">>, <<"l", ".", "n">>, <<"z">>, <<"(">>}

VARIABLES
  messages,       \* the Message collection, in storage (insertion) order
  conversations,  \* the Conversation collection, in storage order
  attachments,    \* the Attachment collection, in storage order
  clock,          \* Date.now()
  req             \* per request slot: the handler's arguments, locals, position

vars == <<messages, conversations, attachments, clock, req>>

\* ---------------------------------------------------------------- helpers
Min(a, b) == IF a < b THEN a ELSE b
Abs(a) == IF a < 0 THEN 0 - a ELSE a

\* String.prototype.substring(0, n)
Substring0(s, n) == SubSeq(s, 1, Min(n, Len(s)))

\* Boolean(x) for an entry of the attachments array
Truthy(a) == a # 0
\* attachments.filter(Boolean)
FilterBoolean(s) == SelectSeq(s, Truthy)
\* whether mongoose can cast the entry to an ObjectId
IsObjectId(a) == a >= 1

NoResp == [status |-> 0, json |-> FALSE, code |-> -1, data |-> <<>>]
\* res.status(s).json({code, msg}) and res.json({code: 0, msg, data})
JsonResp(s, c, d) == [status |-> s, json |-> TRUE, code |-> c, data |-> d]
\* Express's default error handler: status 500 and an HTML page
DefaultErrorResp == [status |-> 500, json |-> FALSE, code |-> -1, data |-> <<>>]

IdleReq ==
  [ kind |-> "none", pc |-> "idle",
    sessionId |-> "", message |-> <<>>, attachments |-> <<>>,
    keyword |-> <<>>, page |-> 0, limit |-> 0,
    hasFile |-> FALSE, mimetype |-> "", size |-> 0,
    ts |-> 0, userMsg |-> 0, geminiRes |-> "none", geminiText |-> <<>>,
    geminiMsg |-> 0,
    total |-> 0, list |-> <<>>, enriched |-> <<>>, found |-> <<>>,
    after |-> {}, resp |-> NoResp ]

Init ==
  /\ messages = <<>>
  /\ conversations = <<>>
  /\ attachments = <<>>
  /\ clock = 0
  /\ req = [r \in Reqs |-> IdleReq]

\* The wall clock advances.
Tick ==
  /\ clock < MaxClock
  /\ clock' = clock + 1
  /\ UNCHANGED <<messages, conversations, attachments, req>>

\* The requests that have been answered when a new one arrives.
Answered == {q \in Reqs : req[q].pc = "done"}

Respond(r, rec, resp) ==
  req' = [req EXCEPT ![r] = [rec EXCEPT !.pc = "done", !.resp = resp]]

\* ------------------------------------------------- POST /api/gemini3/chat
ChatError == JsonResp(500, 500, <<>>)

\* ChatStart with the validation of sessionId alone.
ChatStart_SessionIdOnly(r, sid, msg, atts) ==
  /\ req[r].pc = "idle"
  /\ LET rec == [IdleReq EXCEPT !.kind = "chat", !.sessionId = sid,
                                !.message = msg, !.attachments = atts,
                                !.after = Answered]
     IN IF sid = ""
        THEN Respond(r, rec, JsonResp(400, 400, <<>>))
        ELSE req' = [req EXCEPT ![r] =
                       [rec EXCEPT !.pc = "c_user", !.ts = clock]]
  /\ UNCHANGED <<messages, conversations, attachments, clock>>

\* Lines 109-119: destructuring, validation, and the call of Message.create
\* for the user message (the document gets its createdAt default here).
ChatStart(r, sid, msg, atts) ==
  /\ req[r].pc = "idle"
  /\ LET rec == [IdleReq EXCEPT !.kind = "chat", !.sessionId = sid,
                                !.message = msg, !.attachments = atts,
                                !.after = Answered]
     IN IF sid = "" \/ msg = <<>>
        THEN Respond(r, rec, JsonResp(400, 400, <<>>))
        ELSE req' = [req EXCEPT ![r] =
                       [rec EXCEPT !.pc = "c_user", !.ts = clock]]
  /\ UNCHANGED <<messages, conversations, attachments, clock>>

\* ChatUserInsert with the Conversation created along with the first insert.
ChatUserInsert_UpsertFirst(r, storeOk) ==
  /\ req[r].pc = "c_user"
  /\ LET kept == FilterBoolean(req[r].attachments)
         castOk == \A i \in 1..Len(kept) : IsObjectId(kept[i])
         id == Len(messages) + 1
     IN IF storeOk /\ castOk
        THEN /\ messages' = Append(messages,
                  [ id |-> id, sessionId |-> req[r].sessionId, role |-> "user",
                    content |-> req[r].message, attachments |-> kept,
                    senderAi |-> "", createdAt |-> req[r].ts, replyTo |-> 0 ])
             /\ conversations' =
                  IF \E i \in 1..Len(conversations) :
                       conversations[i].sessionId = req[r].sessionId
                  THEN conversations
                  ELSE Append(conversations,
                         [ sessionId |-> req[r].sessionId,
                           title |-> Substring0(req[r].message, TitleLen),
                           createdAt |-> req[r].ts, updatedAt |-> req[r].ts,
                           isDeleted |-> FALSE ])
             /\ req' = [req EXCEPT ![r].pc = "c_gemini", ![r].userMsg = id]
        ELSE /\ Respond(r, req[r], ChatError)
             /\ UNCHANGED <<messages, conversations>>
  /\ UNCHANGED <<attachments, clock>>

\* Message.create (user message) settles; on success axios.post is called.
ChatUserInsert(r, storeOk) ==
  /\ req[r].pc = "c_user"
  /\ LET kept == FilterBoolean(req[r].attachments)
         castOk == \A i \in 1..Len(kept) : IsObjectId(kept[i])
         id == Len(messages) + 1
     IN IF storeOk /\ castOk
        THEN /\ messages' = Append(messages,
                  [ id |-> id, sessionId |-> req[r].sessionId, role |-> "user",
                    content |-> req[r].message, attachments |-> kept,
                    senderAi |-> "", createdAt |-> req[r].ts, replyTo |-> 0 ])
             /\ req' = [req EXCEPT ![r].pc = "c_gemini", ![r].userMsg = id]
        ELSE /\ Respond(r, req[r], ChatError)
             /\ UNCHANGED messages
  /\ UNCHANGED <<conversations, attachments, clock>>

\* geminiRes.data.candidates[0].content.parts[0].text || placeholder
\* (line 129), for a response body that has a first candidate.
GeminiText(text) == IF text = <<>> THEN Placeholder ELSE text

\* ChatGemini with a failed call taken for an empty answer.
ChatGemini_FailureAsEmpty(r, out) ==
  /\ req[r].pc = "c_gemini"
  /\ req' = [req EXCEPT ![r].pc = "c_reply",
                        ![r].geminiRes = out.kind,
                        ![r].geminiText = GeminiText(out.text),
                        ![r].ts = clock]
  /\ UNCHANGED <<messages, conversations, attachments, clock>>

\* axios.post settles (lines 122-129), geminiRes recording how; on a usable
\* body Message.create is
\* called for the reply, which gets its createdAt default here.  A rejected
\* call and the TypeError of candidates[0] being undefined both land in the
\* catch of line 157.
ChatGemini(r, out) ==
  /\ req[r].pc = "c_gemini"
  /\ IF out.kind = "text"
     THEN req' = [req EXCEPT ![r].pc = "c_reply",
                             ![r].geminiRes = out.kind,
                             ![r].geminiText = GeminiText(out.text),
                             ![r].ts = clock]
     ELSE Respond(r, [req[r] EXCEPT !.geminiRes = out.kind], ChatError)
  /\ UNCHANGED <<messages, conversations, attachments, clock>>

\* ChatReplyInsert with the reply written over the turn's user Message.
ChatReplyInsert_Overwrite(r, storeOk) ==
  /\ req[r].pc = "c_reply"
  /\ LET id == req[r].userMsg
     IN IF storeOk
        THEN /\ messages' = [messages EXCEPT ![id] =
                  [ id |-> id, sessionId |-> req[r].sessionId,
                    role |-> "gemini3", content |-> req[r].geminiText,
                    attachments |-> <<>>, senderAi |-> "gemini-1.5-pro",
                    createdAt |-> req[r].ts, replyTo |-> req[r].userMsg ]]
             /\ req' = [req EXCEPT ![r].pc = "c_upsert", ![r].geminiMsg = id,
                                   ![r].ts = clock]
        ELSE /\ Respond(r, req[r], ChatError)
             /\ UNCHANGED messages
  /\ UNCHANGED <<conversations, attachments, clock>>

\* Message.create (reply) settles; on success `new Date()` is read and
\* Conversation.updateOne is called (lines 132-144).
ChatReplyInsert(r, storeOk) ==
  /\ req[r].pc = "c_reply"
  /\ LET id == Len(messages) + 1
     IN IF storeOk
        THEN /\ messages' = Append(messages,
                  [ id |-> id, sessionId |-> req[r].sessionId,
                    role |-> "gemini3", content |-> req[r].geminiText,
                    attachments |-> <<>>, senderAi |-> "gemini-1.5-pro",
                    createdAt |-> req[r].ts, replyTo |-> req[r].userMsg ])
             /\ req' = [req EXCEPT ![r].pc = "c_upsert", ![r].geminiMsg = id,
                                   ![r].ts = clock]
        ELSE /\ Respond(r, req[r], ChatError)
             /\ UNCHANGED messages
  /\ UNCHANGED <<conversations, attachments, clock>>

\* The positions of the Conversations with this sessionId.
ConvIndexes(convs, sid) == {i \in 1..Len(convs) : convs[i].sessionId = sid}

\* UpdateOneUpsert as a plain insert.
UpdateOneUpsert_AlwaysInsert(convs, sid, updatedAt, title) ==
  Append(convs, [ sessionId |-> sid, title |-> title,
                  createdAt |-> updatedAt, updatedAt |-> updatedAt,
                  isDeleted |-> FALSE ])

\* UpdateOneUpsert with the title set on insert only.
UpdateOneUpsert_TitleOnInsert(convs, sid, updatedAt, title) ==
  LET hit == ConvIndexes(convs, sid)
  IN IF hit # {}
     THEN LET i == CHOOSE j \in hit : \A k \in hit : j <= k
          IN [convs EXCEPT ![i].updatedAt = updatedAt]
     ELSE Append(convs, [ sessionId |-> sid, title |-> title,
                          createdAt |-> updatedAt, updatedAt |-> updatedAt,
                          isDeleted |-> FALSE ])

\* UpdateOneUpsert with updatedAt only ever moved forward.
UpdateOneUpsert_MaxUpdatedAt(convs, sid, updatedAt, title) ==
  LET hit == ConvIndexes(convs, sid)
  IN IF hit # {}
     THEN LET i == CHOOSE j \in hit : \A k \in hit : j <= k
          IN [convs EXCEPT ![i].title = title,
                           ![i].updatedAt =
                              IF @ > updatedAt THEN @ ELSE updatedAt]
     ELSE Append(convs, [ sessionId |-> sid, title |-> title,
                          createdAt |-> updatedAt, updatedAt |-> updatedAt,
                          isDeleted |-> FALSE ])

\* UpdateOneUpsert with the empty filter {}.
UpdateOneUpsert_AnySession(convs, sid, updatedAt, title) ==
  IF convs # <<>>
  THEN [convs EXCEPT ![1].updatedAt = updatedAt, ![1].title = title]
  ELSE Append(convs, [ sessionId |-> sid, title |-> title,
                       createdAt |-> updatedAt, updatedAt |-> updatedAt,
                       isDeleted |-> FALSE ])

\* Conversation.updateOne({sessionId}, {$set: {updatedAt, title}},
\* {upsert: true}) as the store applies it: the first matching document is
\* updated; without one, a document is inserted from the filter, the $set
\* and the schema defaults.
UpdateOneUpsert(convs, sid, updatedAt, title) ==
  LET hit == ConvIndexes(convs, sid)
  IN IF hit # {}
     THEN LET i == CHOOSE j \in hit : \A k \in hit : j <= k
          IN [convs EXCEPT ![i].updatedAt = updatedAt, ![i].title = title]
     ELSE Append(convs, [ sessionId |-> sid, title |-> title,
                          createdAt |-> updatedAt, updatedAt |-> updatedAt,
                          isDeleted |-> FALSE ])

\* ChatUpsert answering 500 after the upsert was applied.
ChatUpsert_ErrorAfterWrite(r, storeOk) ==
  /\ req[r].pc = "c_upsert"
  /\ conversations' = UpdateOneUpsert(conversations, req[r].sessionId,
         req[r].ts, Substring0(req[r].message, TitleLen))
  /\ IF storeOk
     THEN Respond(r, req[r], JsonResp(200, 0,
                 [ sessionId |-> req[r].sessionId,
                   messageId |-> req[r].geminiMsg, role |-> "gemini3",
                   content |-> req[r].geminiText,
                   createdAt |-> messages[req[r].geminiMsg].createdAt ]))
     ELSE Respond(r, req[r], ChatError)
  /\ UNCHANGED <<messages, attachments, clock>>

\* Conversation.updateOne settles; on success the handler answers with the
\* reply (lines 140-156).
ChatUpsert(r, storeOk) ==
  /\ req[r].pc = "c_upsert"
  /\ IF storeOk
     THEN /\ conversations' = UpdateOneUpsert(conversations, req[r].sessionId,
                 req[r].ts, Substring0(req[r].message, TitleLen))
          /\ Respond(r, req[r], JsonResp(200, 0,
                 [ sessionId |-> req[r].sessionId,
                   messageId |-> req[r].geminiMsg, role |-> "gemini3",
                   content |-> req[r].geminiText,
                   createdAt |-> messages[req[r].geminiMsg].createdAt ]))
     ELSE /\ Respond(r, req[r], ChatError)
          /\ UNCHANGED conversations
  /\ UNCHANGED <<messages, attachments, clock>>

\* ------------------------------------------- uncaught handler rejections
\* The listing and thread handlers are async functions without try/catch.
\* When an awaited store operation rejects, the handler's promise rejects:
\* Express 4 drops it (the request is never answered, the rejection is
\* unhandled), Express 5 passes it to the default error handler.  The
\* installed version is not fixed by the source, so both can happen.
UncaughtOutcomes == {"hung", "html500"}

Uncaught(r, how) ==
  IF how = "hung"
  THEN req' = [req EXCEPT ![r].pc = "hung"]
  ELSE Respond(r, req[r], DefaultErrorResp)

\* --------------------------- GET /api/conversations/:sessionId/messages
\* SessionMsgIds with the empty filter {}.
SessionMsgIds_All(msgs, sid) == 1..Len(msgs)

\* The ids of the Messages of a session.
SessionMsgIds(msgs, sid) == {i \in 1..Len(msgs) : msgs[i].sessionId = sid}

\* The orders in which .sort({createdAt: 1}) may return the Messages `ids`:
\* ascending createdAt; the store promises no order among equal keys.
RECURSIVE SortAscCreatedAt(_, _)
SortAscCreatedAt(msgs, ids) ==
  IF ids = {} THEN {<<>>}
  ELSE LET least == {i \in ids :
                       \A j \in ids : msgs[i].createdAt <= msgs[j].createdAt}
       IN UNION {{<<i>> \o t : t \in SortAscCreatedAt(msgs, ids \ {i})} :
                 i \in least}

\* Line 196: the path parameter, and the call of Message.find.
ThreadStart(r, sid) ==
  /\ req[r].pc = "idle"
  /\ req' = [req EXCEPT ![r] = [IdleReq EXCEPT !.kind = "thread",
                                   !.sessionId = sid, !.pc = "t_find"]]
  /\ UNCHANGED <<messages, conversations, attachments, clock>>

\* Message.find({sessionId}).sort({createdAt: 1}) settles (lines 197-198);
\* populate then queries the Attachment collection.
ThreadFind(r, storeOk, how) ==
  /\ req[r].pc = "t_find"
  /\ IF storeOk
     THEN \E ord \in SortAscCreatedAt(messages,
                       SessionMsgIds(messages, req[r].sessionId)) :
            req' = [req EXCEPT ![r].pc = "t_populate",
                       ![r].found = [k \in 1..Len(ord) |-> messages[ord[k]]]]
     ELSE Uncaught(r, how)
  /\ UNCHANGED <<messages, conversations, attachments, clock>>

\* populate('attachments'): each reference is replaced by the Attachment it
\* names; references that name none are dropped.  Then lines 205-209.
Populate(atts, refs) ==
  LET Exists(a) == a \in 1..Len(atts)
      kept == SelectSeq(refs, Exists)
  IN [k \in 1..Len(kept) |->
        [ fileId |-> kept[k], fileName |-> atts[kept[k]].fileName,
          url |-> <<"http://localhost:", PORT, atts[kept[k]].filePath>> ]]

\* Lines 201-211.
ThreadResult(atts, found) ==
  [k \in 1..Len(found) |->
     [ messageId |-> found[k].id, role |-> found[k].role,
       content |-> found[k].content,
       attachments |-> Populate(atts, found[k].attachments),
       createdAt |-> found[k].createdAt ]]

\* The populate query settles; the handler answers (lines 199-213).
ThreadPopulate(r, storeOk, how) ==
  /\ req[r].pc = "t_populate"
  /\ IF storeOk
     THEN Respond(r, req[r],
                  JsonResp(200, 0, ThreadResult(attachments, req[r].found)))
     ELSE Uncaught(r, how)
  /\ UNCHANGED <<messages, conversations, attachments, clock>>

\* ------------------------------------------------ GET /api/conversations
\* parseInt(x) || dflt: NaN (absent, not a number) and 0 are falsy.
ParseIntOr(raw, dflt) ==
  IF raw[1] = "num" /\ raw[2] # 0 THEN raw[2] ELSE dflt

\* The letters of the texts' alphabet, lower-cased (the 'i' option).
Lower(c) ==
  CASE c = "P" -> "p" [] c = "L" -> "l" [] c = "A" -> "a" [] c = "N" -> "n"
    [] c = "X" -> "x" [] c = "Z" -> "z" [] OTHER -> c

\* {$regex: keyword, $options: 'i'}: the keyword is a regular expression,
\* searched anywhere in the title.  Of the metacharacters, the inputs hold
\* "." (any character) and "(" (which, unclosed, makes the pattern invalid).
RegexValid(p) == \A j \in 1..Len(p) : p[j] # "("

RegexSearchI(p, t) ==
  \E i \in 0..(Len(t) - Len(p)) :
    \A j \in 1..Len(p) : p[j] = "." \/ Lower(p[j]) = Lower(t[i + j])

\* Lines 169-170: whether a Conversation passes the filter.
MatchesFilter(c, keyword) ==
  /\ c.isDeleted = FALSE
  /\ keyword # <<>> => RegexSearchI(keyword, c.title)

FilteredIndexes(convs, keyword) ==
  {i \in 1..Len(convs) : MatchesFilter(convs[i], keyword)}

\* The orders in which .sort({updatedAt: -1}) may return the Conversations
\* `ids`: descending updatedAt, no order promised among equal keys.
RECURSIVE SortDescUpdatedAt(_, _)
SortDescUpdatedAt(convs, ids) ==
  IF ids = {} THEN {<<>>}
  ELSE LET most == {i \in ids :
                      \A j \in ids : convs[i].updatedAt >= convs[j].updatedAt}
       IN UNION {{<<i>> \o t : t \in SortDescUpdatedAt(convs, ids \ {i})} :
                 i \in most}

\* .skip(n).limit(m) on a sorted result; a negative limit is its absolute
\* value (the driver then asks for a single batch).
SkipLimit(ord, n, m) ==
  SubSeq(ord, n + 1, Min(Len(ord), n + Abs(m)))

\* Lines 165-172: the query parameters, the filter, and the call of
\* Conversation.countDocuments.
ListStart(r, pageRaw, limitRaw, keyword) ==
  /\ req[r].pc = "idle"
  /\ req' = [req EXCEPT ![r] =
               [IdleReq EXCEPT !.kind = "list", !.pc = "l_count",
                  !.after = Answered,
                  !.page = ParseIntOr(pageRaw, DefaultPage),
                  !.limit = Min(ParseIntOr(limitRaw, DefaultLimit), MaxLimit),
                  !.keyword = keyword]]
  /\ UNCHANGED <<messages, conversations, attachments, clock>>

\* countDocuments settles (line 172); Conversation.find is called.
ListCount(r, storeOk, how) ==
  /\ req[r].pc = "l_count"
  /\ IF storeOk /\ RegexValid(req[r].keyword)
     THEN req' = [req EXCEPT ![r].pc = "l_find",
                     ![r].total = Cardinality(
                        FilteredIndexes(conversations, req[r].keyword))]
     ELSE Uncaught(r, how)
  /\ UNCHANGED <<messages, conversations, attachments, clock>>

\* ListResp with hasMore computed with <=.
ListResp_HasMoreLeq(rec, enriched) ==
  JsonResp(200, 0,
    [ list |-> enriched,
      pagination |-> [ page |-> rec.page, limit |-> rec.limit,
                       total |-> rec.total,
                       hasMore |-> rec.page * rec.limit <= rec.total ] ])

\* res.json of lines 184-191.
ListResp(rec, enriched) ==
  JsonResp(200, 0,
    [ list |-> enriched,
      pagination |-> [ page |-> rec.page, limit |-> rec.limit,
                       total |-> rec.total,
                       hasMore |-> rec.page * rec.limit < rec.total ] ])

\* Conversation.find(...).sort().skip().limit().select() settles (173-177):
\* a negative skip is rejected by the store.  Promise.all then starts one
\* Message.countDocuments per row; with no rows it resolves at once.
ListFind(r, storeOk, how) ==
  /\ req[r].pc = "l_find"
  /\ LET skip == (req[r].page - 1) * req[r].limit
     IN IF storeOk /\ skip >= 0
        THEN \E ord \in SortDescUpdatedAt(conversations,
                          FilteredIndexes(conversations, req[r].keyword)) :
               LET rows == SkipLimit(ord, skip, req[r].limit)
                   list == [k \in 1..Len(rows) |->
                              [ sessionId |-> conversations[rows[k]].sessionId,
                                title |-> conversations[rows[k]].title,
                                updatedAt |-> conversations[rows[k]].updatedAt,
                                messageCount |-> -1 ]]
               IN IF list = <<>>
                  THEN Respond(r, req[r], ListResp(req[r], <<>>))
                  ELSE req' = [req EXCEPT ![r].pc = "l_enrich",
                                          ![r].enriched = list]
        ELSE Uncaught(r, how)
  /\ UNCHANGED <<messages, conversations, attachments, clock>>

\* ListEnrich with countDocuments({}) for the count.
ListEnrich_CountAll(r, k, storeOk, how) ==
  /\ req[r].pc = "l_enrich"
  /\ k \in 1..Len(req[r].enriched)
  /\ req[r].enriched[k].messageCount = -1
  /\ IF storeOk
     THEN LET count == Len(messages)
              enriched == [req[r].enriched EXCEPT ![k].messageCount = count]
          IN IF \A i \in 1..Len(enriched) : enriched[i].messageCount # -1
             THEN Respond(r, req[r], ListResp(req[r], enriched))
             ELSE req' = [req EXCEPT ![r].enriched = enriched]
     ELSE Uncaught(r, how)
  /\ UNCHANGED <<messages, conversations, attachments, clock>>

\* One Message.countDocuments({sessionId}) of lines 179-182 settles, for any
\* row still waiting; after the last one the handler answers.
ListEnrich(r, k, storeOk, how) ==
  /\ req[r].pc = "l_enrich"
  /\ k \in 1..Len(req[r].enriched)
  /\ req[r].enriched[k].messageCount = -1
  /\ IF storeOk
     THEN LET count == Cardinality(
                         SessionMsgIds(messages, req[r].enriched[k].sessionId))
              enriched == [req[r].enriched EXCEPT ![k].messageCount = count]
          IN IF \A i \in 1..Len(enriched) : enriched[i].messageCount # -1
             THEN Respond(r, req[r], ListResp(req[r], enriched))
             ELSE req' = [req EXCEPT ![r].enriched = enriched]
     ELSE Uncaught(r, how)
  /\ UNCHANGED <<messages, conversations, attachments, clock>>

\* ------------------------------------------------------ POST /api/upload
\* Lines 101-104: the catch of the upload handler.
UploadCatch(errMessage) ==
  IF errMessage = UnsupportedMsg
  THEN JsonResp(415, 415, <<>>)
  ELSE JsonResp(500, 500, <<>>)

\* upload.single('file') and lines 79-88.  multer runs before the handler:
\* when fileFilter (lines 68-72) or the size limit (line 67) refuses the
\* file, multer passes the error to next(), the handler (and its catch) is
\* skipped and Express's default error handler answers.  Otherwise the
\* handler runs: without a file it answers 400, with one it calls
\* Attachment.create.
UploadStart(r, hasFile, mime, size, sid) ==
  /\ req[r].pc = "idle"
  /\ LET rec == [IdleReq EXCEPT !.kind = "upload", !.hasFile = hasFile,
                    !.mimetype = mime, !.size = size, !.sessionId = sid]
     IN IF hasFile /\ (mime \notin allowed \/ size > MaxFileSize)
        THEN Respond(r, rec, DefaultErrorResp)
        ELSE IF ~hasFile
        THEN Respond(r, rec, JsonResp(400, 400, <<>>))
        ELSE req' = [req EXCEPT ![r] =
                       [rec EXCEPT !.pc = "u_create", !.ts = clock]]
  /\ UNCHANGED <<messages, conversations, attachments, clock>>

\* Attachment.create settles (lines 82-104).
UploadCreate(r, storeOk) ==
  /\ req[r].pc = "u_create"
  /\ LET id == Len(attachments) + 1
         filePath == <<"/uploads/", req[r].ts, "-file">>
     IN IF storeOk
        THEN /\ attachments' = Append(attachments,
                  [ id |-> id, sessionId |-> req[r].sessionId,
                    fileName |-> "file", fileType |-> req[r].mimetype,
                    fileSize |-> req[r].size, filePath |-> filePath ])
             /\ Respond(r, req[r], JsonResp(200, 0,
                  [ fileId |-> id, fileName |-> "file",
                    fileType |-> req[r].mimetype, fileSize |-> req[r].size,
                    url |-> <<"http://localhost:", PORT, filePath>> ]))
        ELSE /\ Respond(r, req[r], UploadCatch("store error"))
             /\ UNCHANGED attachments
  /\ UNCHANGED <<messages, conversations, clock>>

\* ------------------------------------------------------- specifications
\* Spec: two requests, each a chat turn or a thread read, in any
\* interleaving; the provider may fail, the store does not.
TurnOutcomes == {o \in GeminiOutcomes : o.kind = "error" \/ o.text # <<>>}

Next ==
  \/ Tick
  \/ \E r \in Two, sid \in SessionIds, msg \in Texts :
       ChatStart(r, sid, msg, <<>>)
  \/ \E r \in Two : ChatUserInsert(r, TRUE)
  \/ \E r \in Two, out \in TurnOutcomes : ChatGemini(r, out)
  \/ \E r \in Two : ChatReplyInsert(r, TRUE)
  \/ \E r \in Two : ChatUpsert(r, TRUE)
  \/ \E r \in Two, sid \in SessionIds \ {""} : ThreadStart(r, sid)
  \/ \E r \in Two : ThreadFind(r, TRUE, "hung")
  \/ \E r \in Two : ThreadPopulate(r, TRUE, "hung")

Spec == Init /\ [][Next]_vars

\* SpecList: two successful chat turns and one listing, in any interleaving,
\* all within one reading of the clock (every order among the Conversations
\* is then one the sort may return).
OkOutcomes == {o \in GeminiOutcomes : o.kind = "text" /\ o.text # <<>>}

NextList ==
  \/ \E r \in Two, sid \in SessionIds \ {""}, msg \in Texts \ {<<>>} :
       ChatStart(r, sid, msg, <<>>)
  \/ \E r \in Two : ChatUserInsert(r, TRUE)
  \/ \E r \in Two, out \in OkOutcomes : ChatGemini(r, out)
  \/ \E r \in Two : ChatReplyInsert(r, TRUE)
  \/ \E r \in Two : ChatUpsert(r, TRUE)
  \/ \E r \in Third, p \in PageRaws, l \in LimitRaws, kw \in Keywords :
       ListStart(r, p, l, kw)
  \/ \E r \in Third, how \in UncaughtOutcomes : ListCount(r, TRUE, how)
  \/ \E r \in Third, how \in UncaughtOutcomes : ListFind(r, TRUE, how)
  \/ \E r \in Third : \E k \in 1..Len(req[r].enriched) :
       ListEnrich(r, k, TRUE, "hung")

SpecList == Init /\ [][NextList]_vars

\* SpecPages: two successful chat turns on any sessions and two listings of
\* pages of one row, in any interleaving, all within one reading of the
\* clock.
NextPages ==
  \/ \E r \in Two, sid \in SessionIds \ {""} : ChatStart(r, sid, TPlan, <<>>)
  \/ \E r \in Two : ChatUserInsert(r, TRUE)
  \/ \E r \in Two, out \in OkOutcomes : ChatGemini(r, out)
  \/ \E r \in Two : ChatReplyInsert(r, TRUE)
  \/ \E r \in Two : ChatUpsert(r, TRUE)
  \/ \E r \in Readers, p \in PageRaws : ListStart(r, p, Num(1), <<>>)
  \/ \E r \in Readers : ListCount(r, TRUE, "hung")
  \/ \E r \in Readers : ListFind(r, TRUE, "hung")
  \/ \E r \in Readers : \E k \in 1..Len(req[r].enriched) :
       ListEnrich(r, k, TRUE, "hung")

SpecPages == Init /\ [][NextPages]_vars

\* SpecParams: two successful chat turns and one listing with any kind of
\* page and limit parameter, in any interleaving.
NextParams ==
  \/ \E r \in Two, sid \in SessionIds \ {""} : ChatStart(r, sid, TPlan, <<>>)
  \/ \E r \in Two : ChatUserInsert(r, TRUE)
  \/ \E r \in Two, out \in OkOutcomes : ChatGemini(r, out)
  \/ \E r \in Two : ChatReplyInsert(r, TRUE)
  \/ \E r \in Two : ChatUpsert(r, TRUE)
  \/ \E r \in Third, p \in PageRawsAll, l \in LimitRawsAll :
       ListStart(r, p, l, <<>>)
  \/ \E r \in Third : ListCount(r, TRUE, "hung")
  \/ \E r \in Third, how \in UncaughtOutcomes : ListFind(r, TRUE, how)
  \/ \E r \in Third : \E k \in 1..Len(req[r].enriched) :
       ListEnrich(r, k, TRUE, "hung")

SpecParams == Init /\ [][NextParams]_vars

\* SpecUpload: two uploads, in any interleaving, over a store that may fail.
NextUpload ==
  \/ Tick
  \/ \E r \in Two, hasFile \in BOOLEAN, mime \in MimeTypes,
        size \in FileSizes, sid \in SessionIds :
       UploadStart(r, hasFile, mime, size, sid)
  \/ \E r \in Two, ok \in BOOLEAN : UploadCreate(r, ok)

SpecUpload == Init /\ [][NextUpload]_vars

\* SpecFail: two requests to any of the four endpoints, well-formed and of
\* one session, over a store of which any operation may fail and a provider
\* that may fail.
NextFail ==
  \/ \E r \in Two : ChatStart(r, "s1", TPlan, <<>>)
  \/ \E r \in Two, ok \in BOOLEAN : ChatUserInsert(r, ok)
  \/ \E r \in Two, out \in GeminiOutcomes : ChatGemini(r, out)
  \/ \E r \in Two, ok \in BOOLEAN : ChatReplyInsert(r, ok)
  \/ \E r \in Two, ok \in BOOLEAN : ChatUpsert(r, ok)
  \/ \E r \in Two : ThreadStart(r, "s1")
  \/ \E r \in Two, ok \in BOOLEAN, how \in UncaughtOutcomes :
       ThreadFind(r, ok, how)
  \/ \E r \in Two, ok \in BOOLEAN, how \in UncaughtOutcomes :
       ThreadPopulate(r, ok, how)
  \/ \E r \in Two : ListStart(r, RawNone, RawNone, <<>>)
  \/ \E r \in Two, ok \in BOOLEAN, how \in UncaughtOutcomes :
       ListCount(r, ok, how)
  \/ \E r \in Two, ok \in BOOLEAN, how \in UncaughtOutcomes :
       ListFind(r, ok, how)
  \/ \E r \in Two, ok \in BOOLEAN, how \in UncaughtOutcomes :
       \E k \in 1..Len(req[r].enriched) : ListEnrich(r, k, ok, how)
  \/ \E r \in Two : UploadStart(r, TRUE, "image/png", 1024, "s1")
  \/ \E r \in Two, ok \in BOOLEAN : UploadCreate(r, ok)

SpecFail == Init /\ [][NextFail]_vars

\* SpecAll: two requests to any of the four endpoints, on either session, in
\* any interleaving, over a store of which any operation may fail and a
\* provider that may fail.
NextAll ==
  \/ Tick
  \/ \E r \in Two, sid \in SessionIds \ {""} : ChatStart(r, sid, TPlan, <<>>)
  \/ \E r \in Two, ok \in BOOLEAN : ChatUserInsert(r, ok)
  \/ \E r \in Two, out \in GeminiOutcomes : ChatGemini(r, out)
  \/ \E r \in Two, ok \in BOOLEAN : ChatReplyInsert(r, ok)
  \/ \E r \in Two, ok \in BOOLEAN : ChatUpsert(r, ok)
  \/ \E r \in Two, sid \in SessionIds \ {""} : ThreadStart(r, sid)
  \/ \E r \in Two, ok \in BOOLEAN : ThreadFind(r, ok, "hung")
  \/ \E r \in Two, ok \in BOOLEAN : ThreadPopulate(r, ok, "hung")
  \/ \E r \in Two : ListStart(r, RawNone, RawNone, <<>>)
  \/ \E r \in Two, ok \in BOOLEAN : ListCount(r, ok, "hung")
  \/ \E r \in Two, ok \in BOOLEAN : ListFind(r, ok, "hung")
  \/ \E r \in Two, ok \in BOOLEAN :
       \E k \in 1..Len(req[r].enriched) : ListEnrich(r, k, ok, "hung")
  \/ \E r \in Two, sid \in SessionIds \ {""} :
       UploadStart(r, TRUE, "image/png", 1024, sid)
  \/ \E r \in Two, ok \in BOOLEAN : UploadCreate(r, ok)

SpecAll == Init /\ [][NextAll]_vars

\* SpecAtt: two requests, each a chat turn with any attachments array or an
\* upload, and a thread read, in any interleaving; nothing fails.
NextAtt ==
  \/ \E r \in Two, atts \in AttLists : ChatStart(r, "s1", TPlan, atts)
  \/ \E r \in Two : ChatUserInsert(r, TRUE)
  \/ \E r \in Two, out \in OkOutcomes : ChatGemini(r, out)
  \/ \E r \in Two : ChatReplyInsert(r, TRUE)
  \/ \E r \in Two : ChatUpsert(r, TRUE)
  \/ \E r \in Two : UploadStart(r, TRUE, "image/png", 1024, "s1")
  \/ \E r \in Two : UploadCreate(r, TRUE)
  \/ \E r \in Third : ThreadStart(r, "s1")
  \/ \E r \in Third : ThreadFind(r, TRUE, "hung")
  \/ \E r \in Third : ThreadPopulate(r, TRUE, "hung")

SpecAtt == Init /\ [][NextAtt]_vars

\* ============================================================== claims
\* What the claims speak of, read off the request slots.
IsChat(r) == req[r].kind = "chat"
\* the turn was answered with code 0
Succeeded(r) == IsChat(r) /\ req[r].pc = "done" /\ req[r].resp.code = 0
\* the turn's Completion Gateway call was made and failed
GatewayFailed(r) == IsChat(r) /\ req[r].geminiRes = "error"
\* the first n characters of text s, stated without substring
IsPrefixOf(t, s, n) ==
  /\ Len(t) = Min(n, Len(s))
  /\ \A i \in 1..Len(t) : t[i] = s[i]
\* the Conversation is as the upsert of turn q wrote it
WrittenBy(c, q) ==
  /\ c.sessionId = req[q].sessionId
  /\ IsPrefixOf(c.title, req[q].message, TitleLen)
  /\ c.updatedAt = req[q].ts
Range(f) == {f[i] : i \in DOMAIN f}

\* C1: when the Completion Gateway call of a turn fails, the turn ends with
\* the 500 envelope, its user Message is in the store and in every result
\* getThread can return for the session, no reply to it is stored, and a
\* Conversation of the session, if there is one, is as a successful turn of
\* another request wrote it.
C1_GatewayFailureKeepsUserMessage ==
  \A r \in Reqs : GatewayFailed(r) =>
    /\ req[r].pc = "done"
    /\ req[r].resp = JsonResp(500, 500, <<>>)
    /\ req[r].userMsg \in 1..Len(messages)
    /\ messages[req[r].userMsg].role = "user"
    /\ messages[req[r].userMsg].sessionId = req[r].sessionId
    /\ messages[req[r].userMsg].content = req[r].message
    /\ \A ord \in SortAscCreatedAt(messages,
                    SessionMsgIds(messages, req[r].sessionId)) :
         req[r].userMsg \in Range(ord)
    /\ \A i \in 1..Len(messages) : messages[i].replyTo # req[r].userMsg
    /\ \A i \in ConvIndexes(conversations, req[r].sessionId) :
         \E q \in Reqs \ {r} : Succeeded(q) /\ WrittenBy(conversations[i], q)

\* a failed turn on a session that has no Conversation, next to a
\* successful turn on another session
C1_Witness ==
  \E r \in Reqs, q \in Reqs :
    /\ GatewayFailed(r) /\ Succeeded(q)
    /\ ConvIndexes(conversations, req[r].sessionId) = {}
    /\ Len(messages) = 3

\* C2: no sessionId ever has more than one Conversation; after a successful
\* turn its session has exactly one, and when no other turn on that session
\* has got as far as its upsert, the title is the first 30 characters of the
\* turn's text.
C2_OneConversationPerSession ==
  /\ \A sid \in SessionIds :
       Cardinality(ConvIndexes(conversations, sid)) <= 1
  /\ \A r \in Reqs : Succeeded(r) =>
       /\ Cardinality(ConvIndexes(conversations, req[r].sessionId)) = 1
       /\ (\A q \in Reqs \ {r} :
             ~(Succeeded(q) /\ req[q].sessionId = req[r].sessionId))
          => \A i \in ConvIndexes(conversations, req[r].sessionId) :
               IsPrefixOf(conversations[i].title, req[r].message, TitleLen)

\* two first turns of one session that ran concurrently and both succeeded,
\* the text of one longer than a title, and one Conversation in the store
C2_Witness ==
  \E r \in Reqs : \E q \in Reqs \ {r} :
    /\ Succeeded(r) /\ Succeeded(q)
    /\ req[r].sessionId = req[q].sessionId
    /\ req[r].after = {} /\ req[q].after = {}
    /\ Len(req[r].message) > TitleLen
    /\ Len(conversations) = 1

\* C3: when a turn arrives after another turn on the same session has been
\* answered and both succeed (and no third turn on the session does), the
\* title is the first 30 characters of the later turn's text.
C3_SequentialTitleIsSecond ==
  \A r1 \in Reqs : \A r2 \in Reqs \ {r1} :
    ( /\ Succeeded(r1) /\ Succeeded(r2)
      /\ req[r1].sessionId = req[r2].sessionId
      /\ r1 \in req[r2].after
      /\ \A q \in Reqs \ {r1, r2} :
           ~(IsChat(q) /\ req[q].sessionId = req[r1].sessionId) )
    => \A i \in ConvIndexes(conversations, req[r2].sessionId) :
         IsPrefixOf(conversations[i].title, req[r2].message, TitleLen)

\* the second of two sequential turns replaced the title left by the first
C3_Witness ==
  \E r1 \in Reqs : \E r2 \in Reqs \ {r1} :
    /\ Succeeded(r1) /\ Succeeded(r2)
    /\ req[r1].sessionId = req[r2].sessionId
    /\ r1 \in req[r2].after
    /\ req[r1].message # req[r2].message
    /\ \E i \in ConvIndexes(conversations, req[r2].sessionId) :
         /\ IsPrefixOf(conversations[i].title, req[r2].message, TitleLen)
         /\ ~IsPrefixOf(conversations[i].title, req[r1].message, TitleLen)

\* every Conversation's title is the first 30 characters of the text of a
\* turn on its session
TitlesComeFromTurns ==
  \A i \in 1..Len(conversations) :
    \E q \in Reqs :
      /\ IsChat(q) /\ req[q].sessionId = conversations[i].sessionId
      /\ IsPrefixOf(conversations[i].title, req[q].message, TitleLen)

\* C4: every upsert of a successful turn is applied, also next to a
\* concurrent turn on the same session: right after it the session's one
\* Conversation carries that turn's title and updatedAt, so the final
\* values are those of the upsert applied last; and no interleaving leaves
\* a title that is not the 30-character prefix of a turn's text.
C4_ConcurrentLastWriteWins ==
  [][ /\ \A r \in Reqs :
           (req[r].pc = "c_upsert" /\ req'[r].resp.code = 0) =>
             /\ Cardinality(ConvIndexes(conversations', req[r].sessionId)) = 1
             /\ \A i \in ConvIndexes(conversations', req[r].sessionId) :
                  WrittenBy(conversations'[i], r)
      /\ TitlesComeFromTurns' ]_vars

\* two concurrent successful turns on one session with different texts; the
\* Conversation is left as the turn whose user Message was stored first
\* wrote it, with the earlier of the two updatedAt
C4_Witness ==
  \E r \in Reqs : \E q \in Reqs \ {r} :
    /\ Succeeded(r) /\ Succeeded(q)
    /\ req[r].sessionId = req[q].sessionId
    /\ req[r].after = {} /\ req[q].after = {}
    /\ req[r].userMsg < req[q].userMsg
    /\ req[r].ts < req[q].ts
    /\ \E i \in ConvIndexes(conversations, req[r].sessionId) :
         /\ WrittenBy(conversations[i], r)
         /\ ~IsPrefixOf(conversations[i].title, req[q].message, TitleLen)

IsThreadAnswer(r) ==
  req[r].kind = "thread" /\ req[r].pc = "done" /\ req[r].resp.code = 0

\* C5: every getThread result is in non-decreasing createdAt order, and
\* each reply in it comes after the user Message of its turn, also when the
\* two carry the same createdAt.
C5_ThreadOrderUserBeforeReply ==
  \A r \in Reqs : IsThreadAnswer(r) =>
    LET d == req[r].resp.data
    IN /\ \A k \in 1..(Len(d) - 1) : d[k].createdAt <= d[k + 1].createdAt
       /\ \A k \in 1..Len(d) :
            messages[d[k].messageId].replyTo # 0 =>
              \E j \in 1..(k - 1) :
                d[j].messageId = messages[d[k].messageId].replyTo

InvalidTurn(r) ==
  IsChat(r) /\ (req[r].sessionId = "" \/ req[r].message = <<>>)

\* C6: a turn whose sessionId or text is missing or empty is answered 400
\* in the step that receives it, which changes no store; the handler has
\* returned, so the turn never reaches the Completion Gateway.
C6_InvalidTurnNoSideEffects ==
  [][ /\ \A r \in Reqs :
           (req[r].pc = "idle" /\ InvalidTurn(r)') =>
             /\ req'[r].resp = JsonResp(400, 400, <<>>)
             /\ messages' = messages
             /\ conversations' = conversations
             /\ attachments' = attachments
      /\ \A r \in Reqs :
           InvalidTurn(r)' =>
             /\ req'[r].pc = "done"
             /\ req'[r].userMsg = 0 /\ req'[r].geminiMsg = 0 ]_vars

\* a turn without text and a store that holds Messages and a Conversation
C6_Witness ==
  \E r \in Reqs :
    /\ InvalidTurn(r) /\ req[r].sessionId # "" /\ req[r].message = <<>>
    /\ req[r].resp = JsonResp(400, 400, <<>>)
    /\ req[r].after # {}
    /\ Len(messages) = 2 /\ Len(conversations) = 1

IsList(r) == req[r].kind = "list"
IsListAnswer(r) == IsList(r) /\ req[r].pc = "done" /\ req[r].resp.code = 0

\* keyword occurs in title as a literal substring, letter case ignored
ContainsLiteralI(t, kw) ==
  \E i \in 0..(Len(t) - Len(kw)) :
    \A j \in 1..Len(kw) : Lower(kw[j]) = Lower(t[i + j])

LiteralMatches(convs, kw) ==
  {i \in 1..Len(convs) :
     convs[i].isDeleted = FALSE /\ ContainsLiteralI(convs[i].title, kw)}

\* C7: for a non-empty keyword, listConversations counts in total exactly
\* the non-deleted Conversations whose title contains the keyword as a
\* literal substring, letter case ignored, and returns no other ones.
C7_KeywordIsLiteralSubstring ==
  [][ \A r \in Reqs : (IsList(r) /\ req[r].keyword # <<>>) =>
        /\ (req[r].pc = "l_count" /\ req'[r].pc = "l_find") =>
             req'[r].total =
               Cardinality(LiteralMatches(conversations, req[r].keyword))
        /\ (req[r].pc = "l_find" /\ req'[r].pc \in {"l_enrich", "done"}) =>
             LET rows == IF req'[r].pc = "done"
                         THEN req'[r].resp.data.list ELSE req'[r].enriched
             IN \A k \in 1..Len(rows) :
                  \E i \in LiteralMatches(conversations, req[r].keyword) :
                    conversations[i].sessionId = rows[k].sessionId ]_vars

\* C8: total is the number of Conversations that pass the filter when the
\* count is taken, whatever page and limit are, and every response reports
\* the page, limit and total of the request with hasMore = page*limit < total.
C8_TotalAndHasMore ==
  [][ /\ \A r \in Reqs :
           (req[r].pc = "l_count" /\ req'[r].pc = "l_find") =>
             req'[r].total =
               Cardinality({i \in 1..Len(conversations) :
                  MatchesFilter(conversations[i], req[r].keyword)})
      /\ \A r \in Reqs : IsListAnswer(r)' =>
           LET pg == req'[r].resp.data.pagination
           IN /\ pg.page = req'[r].page /\ pg.limit = req'[r].limit
              /\ pg.total = req'[r].total
              /\ pg.hasMore = (pg.page * pg.limit < pg.total) ]_vars

\* total = 2 with limit 1: the last page, 2, has no more
C8_Witness ==
  \E r \in Reqs :
    /\ IsListAnswer(r)
    /\ req[r].resp.data.pagination =
         [page |-> 2, limit |-> 1, total |-> 2, hasMore |-> FALSE]
    /\ Len(req[r].resp.data.list) = 1

\* C9: an upload whose MIME type is not in the allowed list is answered
\* with status 415 and code 415 in a JSON envelope, and creates no
\* Attachment.
C9_UnsupportedTypeIs415 ==
  \A r \in Reqs :
    ( /\ req[r].kind = "upload" /\ req[r].pc = "done"
      /\ req[r].hasFile /\ req[r].mimetype \notin allowed )
    => /\ req[r].resp = JsonResp(415, 415, <<>>)
       /\ \A i \in 1..Len(attachments) :
            attachments[i].fileType \in allowed

\* C10: no request is left unanswered, and every answer is a JSON envelope
\* with code 0, 400, 415 or 500, also when a store operation fails.
C10_AlwaysJsonEnvelope ==
  \A r \in Reqs :
    /\ req[r].pc # "hung"
    /\ req[r].pc = "done" =>
         /\ req[r].resp.json
         /\ req[r].resp.code \in {0, 400, 415, 500}

\* The store did not change while listing r ran: every turn that was ever
\* started had been answered when r arrived.
StoreQuietDuring(r) ==
  \A c \in Reqs : IsChat(c) => c \in req[r].after
\* the sessionIds of the rows listing r returned
RowSessions(r) ==
  {req[r].resp.data.list[k].sessionId :
     k \in 1..Len(req[r].resp.data.list)}

\* C11: on a store that does not change, a listing returns at most limit
\* rows in non-increasing updatedAt order, and pages 1 and 2 of one query
\* are disjoint and, when two pages hold every Conversation that passes the
\* filter, together return each of them.
C11_PagesPartitionFilteredList ==
  \A r \in Reqs : \A q \in Reqs \ {r} :
    ( /\ IsListAnswer(r) /\ IsListAnswer(q)
      /\ StoreQuietDuring(r) /\ StoreQuietDuring(q)
      /\ req[r].keyword = req[q].keyword /\ req[r].limit = req[q].limit
      /\ req[r].page = 1 /\ req[q].page = 2 ) =>
    LET rows == req[r].resp.data.list
        all == {conversations[i].sessionId :
                  i \in FilteredIndexes(conversations, req[r].keyword)}
    IN /\ Len(rows) <= req[r].limit
       /\ \A k \in 1..(Len(rows) - 1) :
            rows[k].updatedAt >= rows[k + 1].updatedAt
       /\ RowSessions(r) \cap RowSessions(q) = {}
       /\ Cardinality(all) <= 2 * req[r].limit =>
            RowSessions(r) \cup RowSessions(q) = all

\* C12: every listing works with a page of at least 1 and a limit within
\* 1..MaxLimit, so that the number of rows it skips is never negative.
C12_EffectivePageAndLimit ==
  \A r \in Reqs : IsList(r) =>
    /\ req[r].page >= 1
    /\ req[r].limit \in 1..MaxLimit
    /\ (req[r].page - 1) * req[r].limit >= 0

\* the Messages of session sid with this role
RoleMsgIds(msgs, sid, role) ==
  {i \in 1..Len(msgs) : msgs[i].sessionId = sid /\ msgs[i].role = role}

\* C13: a stored Message is never changed or removed; the store holds one
\* Message per insert of a turn, so a successful turn has added exactly two,
\* both of its session, the user Message before the reply; and a session
\* never has more replies than user Messages.
C13_MessagesOnlyGrow ==
  [][ /\ Len(messages') >= Len(messages)
      /\ \A i \in 1..Len(messages) : messages'[i] = messages[i]
      /\ Len(messages') =
           Cardinality({r \in Reqs : req'[r].userMsg # 0})
           + Cardinality({r \in Reqs : req'[r].geminiMsg # 0})
      /\ \A r \in Reqs : Succeeded(r)' =>
           /\ 0 < req'[r].userMsg /\ req'[r].userMsg < req'[r].geminiMsg
           /\ messages'[req'[r].userMsg].role = "user"
           /\ messages'[req'[r].geminiMsg].role = "gemini3"
           /\ messages'[req'[r].userMsg].sessionId = req'[r].sessionId
           /\ messages'[req'[r].geminiMsg].sessionId = req'[r].sessionId
           /\ \A q \in Reqs \ {r} :
                /\ req'[q].userMsg \notin {req'[r].userMsg, req'[r].geminiMsg}
                /\ req'[q].geminiMsg \notin {req'[r].userMsg, req'[r].geminiMsg}
      /\ \A sid \in SessionIds :
           Cardinality(RoleMsgIds(messages', sid, "gemini3"))
             <= Cardinality(RoleMsgIds(messages', sid, "user")) ]_vars

\* two turns of one session have succeeded, a third Message of the session
\* having been stored between the two of one of them
C13_Witness ==
  /\ \A r \in Two : Succeeded(r) /\ req[r].sessionId = "s1"
  /\ Len(messages) = 4
  /\ \E r \in Two : req[r].geminiMsg > req[r].userMsg + 1

\* the provider answered turn r with a well-formed body that carries no
\* text: an empty candidates list, or a first part with empty text
GatewayEmpty(r) ==
  /\ IsChat(r)
  /\ \/ req[r].geminiRes = "nocandidates"
     \/ req[r].geminiRes = "text" /\ req[r].geminiText \in {<<>>, Placeholder}

\* C14: a turn whose provider answer is well-formed but empty goes on with
\* the placeholder as reply text, which is what it stores and returns (it
\* can then fail in the store only); and no stored reply and no success
\* response has empty content.
C14_EmptyAnswerGetsPlaceholder ==
  /\ \A r \in Reqs : (GatewayEmpty(r) /\ req[r].pc = "done") =>
       /\ req[r].geminiText = Placeholder
       /\ req[r].geminiMsg # 0 =>
            messages[req[r].geminiMsg].content = Placeholder
       /\ Succeeded(r) => req[r].resp.data.content = Placeholder
  /\ \A i \in 1..Len(messages) :
       messages[i].role = "gemini3" => messages[i].content # <<>>
  /\ \A r \in Reqs : Succeeded(r) => req[r].resp.data.content # <<>>

\* the rows listing r holds: those of its response once it has answered
ListRows(r) ==
  IF req[r].pc = "done" THEN req[r].resp.data.list ELSE req[r].enriched
\* how many stored Messages carry this sessionId
CountOfSession(msgs, sid) ==
  Cardinality({i \in 1..Len(msgs) : msgs[i].sessionId = sid})

\* C15: when the count of a row is taken, the row's messageCount becomes the
\* number of Messages in the store with the row's sessionId; a count once
\* taken stays as it is; so every returned messageCount is a count the
\* store held for that session during the request, at most the present one.
C15_MessageCountPerSession ==
  [][ \A r \in Reqs : (IsList(r) /\ req[r].pc = "l_enrich"
                       /\ req'[r].pc \in {"l_enrich", "done"}
                       /\ (req'[r].pc = "done" => req'[r].resp.code = 0)) =>
        /\ Len(ListRows(r)') = Len(ListRows(r))
        /\ \A k \in 1..Len(ListRows(r)) :
             LET old == ListRows(r)[k]
                 new == ListRows(r)'[k]
             IN /\ new.sessionId = old.sessionId
                /\ old.messageCount # -1 => new = old
                /\ (old.messageCount = -1 /\ new.messageCount # -1) =>
                     new.messageCount = CountOfSession(messages, old.sessionId)
                /\ new.messageCount <= CountOfSession(messages', old.sessionId)
        /\ req'[r].pc = "done" =>
             \A k \in 1..Len(ListRows(r)') : ListRows(r)'[k].messageCount >= 0
    ]_vars

\* a listing returned a row whose count was taken between the two inserts
\* of the second turn on the row's session
C15_Witness ==
  \E r \in Reqs : IsListAnswer(r) /\
    \E k \in 1..Len(req[r].resp.data.list) :
      /\ req[r].resp.data.list[k].messageCount = 3
      /\ CountOfSession(messages, req[r].resp.data.list[k].sessionId) = 4

\* C16: once the first insert of a well-formed turn has settled on a store
\* that does not fail, the user Message is stored with the attachments
\* array of the request, entry for entry, whether or not the entries name
\* Attachments.
C16_AttachmentsStoredAsGiven ==
  \A r \in Reqs :
    (IsChat(r) /\ ~InvalidTurn(r) /\ req[r].pc \notin {"idle", "c_user"}) =>
      /\ req[r].userMsg \in 1..Len(messages)
      /\ messages[req[r].userMsg].attachments = req[r].attachments

IsThread(r) == req[r].kind = "thread"

\* C17: the Messages getThread finds are those of the store whose sessionId
\* is the requested one, each once and as stored; it answers success with
\* one row per Message found, hence with the empty list when there is none;
\* and no step of it changes a store.
C17_ThreadIsExactlyTheSession ==
  [][ \A r \in Reqs : (IsThread(r) /\ req'[r] # req[r]) =>
        /\ messages' = messages
        /\ conversations' = conversations
        /\ attachments' = attachments
        /\ req'[r].pc = "t_populate" =>
             LET f == req'[r].found
             IN /\ \A k \in 1..Len(f) :
                     /\ f[k].sessionId = req[r].sessionId
                     /\ f[k].id \in 1..Len(messages)
                     /\ messages[f[k].id] = f[k]
                     /\ \A j \in 1..Len(f) : f[j].id = f[k].id => j = k
                /\ \A i \in 1..Len(messages) :
                     messages[i].sessionId = req[r].sessionId =>
                       \E k \in 1..Len(f) : f[k].id = i
        /\ req'[r].pc = "done" =>
             LET d == req'[r].resp.data
             IN /\ req'[r].resp.status = 200 /\ req'[r].resp.code = 0
                /\ Len(d) = Len(req[r].found)
                /\ \A k \in 1..Len(d) :
                     /\ d[k].messageId = req[r].found[k].id
                     /\ d[k].role = req[r].found[k].role
                     /\ d[k].content = req[r].found[k].content
                     /\ d[k].createdAt = req[r].found[k].createdAt ]_vars

\* getThread answered with the empty list for a session without Messages
\* while the store held those of another session
C17_Witness ==
  \E r \in Reqs :
    /\ IsThreadAnswer(r) /\ req[r].resp.data = <<>>
    /\ Len(messages) >= 2
    /\ \A i \in 1..Len(messages) : messages[i].sessionId # req[r].sessionId

\* C18: the Conversation store changes only in the step in which the upsert
\* of a turn settles and the turn is answered with success; that step keeps
\* every Conversation of another session as it is and adds at most one, of
\* the turn's session; steps of upload, listConversations and getThread
\* keep the store as it is.
C18_OnlyUpsertWritesConversations ==
  [][ /\ conversations' # conversations =>
           \E r \in Reqs :
             /\ IsChat(r) /\ req[r].pc = "c_upsert" /\ Succeeded(r)'
             /\ Len(conversations') \in
                  {Len(conversations), Len(conversations) + 1}
             /\ \A i \in 1..Len(conversations) :
                  /\ conversations'[i].sessionId = conversations[i].sessionId
                  /\ conversations[i].sessionId # req[r].sessionId =>
                       conversations'[i] = conversations[i]
             /\ \A i \in (Len(conversations) + 1)..Len(conversations') :
                  conversations'[i].sessionId = req[r].sessionId
      /\ \A r \in Reqs :
           (req'[r] # req[r] /\ req'[r].kind \in {"upload", "list", "thread"})
             => conversations' = conversations ]_vars

\* a turn has written the Conversation of its session at a later time than
\* another turn wrote the Conversation of another session, which is still
\* as that turn wrote it
C18_Witness ==
  /\ Len(conversations) = 2
  /\ conversations[1].sessionId # conversations[2].sessionId
  /\ conversations[2].updatedAt > conversations[1].updatedAt
  /\ \E r \in Reqs : Succeeded(r) /\ WrittenBy(conversations[1], r)

\* C19: every Conversation in the store has a user Message and a reply
\* Message of its session, and every count a listing has taken for a row is
\* at least 2.
C19_ConversationHasBothMessages ==
  /\ \A i \in 1..Len(conversations) :
       /\ RoleMsgIds(messages, conversations[i].sessionId, "user") # {}
       /\ RoleMsgIds(messages, conversations[i].sessionId, "gemini3") # {}
  /\ \A r \in Reqs : (IsList(r) /\ req[r].pc \in {"l_enrich", "done"}) =>
       \A k \in 1..Len(ListRows(r)) :
         ListRows(r)[k].messageCount # -1 => ListRows(r)[k].messageCount >= 2

\* a listing returned the only Conversation, with the two Messages of the
\* turn that wrote it
C19_Witness ==
  \E r \in Reqs : IsListAnswer(r) /\
    \E k \in 1..Len(req[r].resp.data.list) :
      /\ req[r].resp.data.list[k].messageCount = 2
      /\ Len(conversations) = 1

\* C20: a turn answered with code 0 has its user Message, its reply Message
\* and a Conversation of its session in the store, and returns the id, the
\* content and the createdAt of the stored reply; a turn answered with an
\* error has written no Conversation: the store is as it was in the step
\* that answered it, and a Conversation of its session is as a successful
\* turn wrote it.
C20_SuccessMeansAllApplied ==
  [][ \A r \in Reqs : (IsChat(r)' /\ req'[r].pc = "done") =>
        /\ Succeeded(r)' =>
             LET d == req'[r].resp.data
                 u == req'[r].userMsg
                 g == req'[r].geminiMsg
             IN /\ u \in 1..Len(messages') /\ g \in 1..Len(messages')
                /\ messages'[u].role = "user"
                /\ messages'[u].content = req'[r].message
                /\ messages'[g].role = "gemini3"
                /\ messages'[g].replyTo = u
                /\ d.messageId = messages'[g].id
                /\ d.content = messages'[g].content
                /\ d.createdAt = messages'[g].createdAt
                /\ d.sessionId = req'[r].sessionId
                /\ \E i \in 1..Len(conversations') :
                     conversations'[i].sessionId = req'[r].sessionId
        /\ ~Succeeded(r)' =>
             /\ req[r].pc # "done" => conversations' = conversations
             /\ \A i \in 1..Len(conversations') :
                  conversations'[i].sessionId = req'[r].sessionId =>
                    \E q \in Reqs \ {r} :
                      /\ Succeeded(q)'
                      /\ IsPrefixOf(conversations'[i].title,
                                    req'[q].message, TitleLen)
                      /\ conversations'[i].updatedAt = req'[q].ts
                      /\ req'[q].sessionId = req'[r].sessionId
    ]_vars

\* a turn failed at the upsert with both of its Messages stored, and a later
\* turn of the session succeeded with a reply stored at a later time
C20_Witness ==
  \E r \in Reqs : \E q \in Reqs \ {r} :
    /\ IsChat(r) /\ req[r].pc = "done" /\ req[r].resp.code = 500
    /\ req[r].geminiMsg # 0
    /\ Succeeded(q) /\ req[q].sessionId = req[r].sessionId
    /\ req[q].resp.data.createdAt > messages[req[r].geminiMsg].createdAt

====
